---- MODULE Spec2Model ----
(***************************************************************************)
(* Model of the REST API of development-platforms-ca: the users, articles  *)
(* and auth routers (Express middleware chains followed by a handler that  *)
(* runs parameterized SQL statements through pool.execute), the zod        *)
(* validators of middleware/user-validation.ts, and the token service.     *)
(*                                                                         *)
(* A request is handled in one step: the whole middleware chain and the    *)
(* handler run, the store is updated and the response is recorded in       *)
(* `last` together with the chain steps and store statements that ran.     *)
(***************************************************************************)
EXTENDS Integers, Sequences, FiniteSets, TLC

VARIABLES
    users,          \* rows of table users: set of [id, username, email, password]
    articles,       \* rows of table articles: set of [id, title, body, submitted_by,
                    \* category, created_at]
    nextUserId,     \* AUTO_INCREMENT counter of users.id
    nextArticleId,  \* AUTO_INCREMENT counter of articles.id
    issued,         \* tokens handed out by POST /auth/login (held by clients)
    now,            \* the clock tokens are stamped and verified against
    last,           \* the last request handled: inputs, chain trace, response
    memo,           \* a rejected request a client kept, to send it again
    pending         \* POST /auth/register requests in flight, one per client

vars == <<users, articles, nextUserId, nextArticleId, issued, now, last, memo, pending>>

----------------------------------------------------------------------------
(* Bounds of the model.                                                    *)

MaxUsers == 2
MaxArticles == 1
MaxClients == 2
MaxTokens == 2
MaxTime == 2

----------------------------------------------------------------------------
(* JSON values carried by request bodies and path parameters.  Emails are  *)
(* sequences of characters, because their syntax is inspected; the other   *)
(* strings are only measured and compared.                                 *)

Undef == [t |-> "undefined"]
Num(n) == [t |-> "number", n |-> n]
Str(s) == [t |-> "string", s |-> s]

IsStr(v) == v.t = "string"
\* JavaScript truthiness of a body field: undefined, 0 and "" are falsy.
Truthy(v) ==
    CASE v.t = "undefined" -> FALSE
      [] v.t = "number" -> v.n # 0
      [] v.t = "string" -> Len(v.s) > 0

Digits == {"0", "1", "2", "3", "4", "5", "6", "7", "8", "9"}
Letters == {"a", "b", "i", "o"}

DigitVal(c) ==
    CASE c = "0" -> 0 [] c = "1" -> 1 [] c = "2" -> 2 [] c = "3" -> 3
      [] c = "4" -> 4 [] c = "5" -> 5 [] c = "6" -> 6 [] c = "7" -> 7
      [] c = "8" -> 8 [] c = "9" -> 9

\* The same pattern without its anchors, /\d+/.
ContainsDigits(s) == \E i \in 1..Len(s) : s[i] \in Digits

\* /^\d+$/ on a path parameter.
MatchesDigits(s) == Len(s) > 0 /\ \A i \in 1..Len(s) : s[i] \in Digits

\* Number(req.params.id) for a parameter made of decimal digits.
RECURSIVE ToNumber(_)
ToNumber(s) ==
    IF Len(s) = 0 THEN 0
    ELSE 10 * ToNumber(SubSeq(s, 1, Len(s) - 1)) + DigitVal(s[Len(s)])

\* Number(req.params.id) for a parameter written with digits, letters and
\* "-": digits with an optional leading "-" convert, anything else is NaN.
JsNumber(s) ==
    IF MatchesDigits(s) THEN [nan |-> FALSE, n |-> ToNumber(s)]
    ELSE IF Len(s) > 1 /\ s[1] = "-" /\ MatchesDigits(Tail(s))
         THEN [nan |-> FALSE, n |-> 0 - ToNumber(Tail(s))]
    ELSE [nan |-> TRUE, n |-> 0]

----------------------------------------------------------------------------
(* Email syntax, as z.email() decides it: one "@"; a local part that is    *)
(* not empty, does not start or end with "." ; no ".." anywhere; a domain  *)
(* of dot-separated non-empty alphanumeric labels whose last label is at   *)
(* least two letters.                                                      *)

Positions(s, c) == {i \in 1..Len(s) : s[i] = c}

AlnumLabel(s, from, to) ==
    /\ from <= to
    /\ \A i \in from..to : s[i] \in Letters \cup Digits

IsEmail(s) ==
    /\ Cardinality(Positions(s, "@")) = 1
    /\ LET at == CHOOSE i \in Positions(s, "@") : TRUE
           dots == {i \in Positions(s, ".") : i > at}
           cuts == {at} \cup dots \cup {Len(s) + 1}
           lastDot == CHOOSE i \in dots : \A j \in dots : j <= i
       IN  /\ at > 1
           /\ s[1] # "."
           /\ s[at - 1] # "."
           /\ \A i \in 1..(Len(s) - 1) : ~(s[i] = "." /\ s[i + 1] = ".")
           /\ \A i \in 1..(at - 1) : s[i] \in Letters \cup Digits \cup {"."}
           /\ dots # {}
           /\ \A c \in cuts \ {Len(s) + 1} :
                 LET nxt == CHOOSE d \in cuts : d > c /\ \A e \in cuts : e > c => d <= e
                 IN  AlnumLabel(s, c + 1, nxt - 1)
           /\ Len(s) - lastDot >= 2
           /\ \A i \in (lastDot + 1)..Len(s) : s[i] \in Letters

----------------------------------------------------------------------------
(* Responses.  A response is what res.status(..).json(..) sends; NoRes     *)
(* stands for "nothing sent yet".                                          *)

NoRes == [status |-> 0]
NoData == [t |-> "none"]
Response(status, error, details, data) ==
    [status |-> status, error |-> error, details |-> details, data |-> data]
ErrorRes(status, error) == Response(status, error, <<>>, NoData)
DataRes(status, data) == Response(status, "", <<>>, data)
\* res.json(rows): a JSON array, its elements taken as a set.
ArrayOf(items) == [t |-> "array", items |-> items]

\* What a middleware did: the response it sent (or NoRes), whether it
\* called next(), and the identity it attached to the request (0: none).
Rejecting(res) == [res |-> res, next |-> FALSE, user |-> 0]
RespondedAndNext(res) == [res |-> res, next |-> TRUE, user |-> 0]
Passing == [res |-> NoRes, next |-> TRUE, user |-> 0]
PassingAs(id) == [res |-> NoRes, next |-> TRUE, user |-> id]

----------------------------------------------------------------------------
(* zod schemas of middleware/user-validation.ts: the list of issue        *)
(* messages safeParse reports, in the order of the schema's keys.          *)

MinUsername == 2
MaxUsername == 50

\* The length rules below with the bounds themselves refused.
UsernameLengthExclusive(v) ==
    IF Len(v.s) <= MinUsername THEN <<"Username must be at least 2 characters">>
    ELSE IF Len(v.s) >= MaxUsername THEN <<"Username must not exceed 50 characters">>
    ELSE <<>>

UsernameLengthIssues(v) ==
    IF Len(v.s) < MinUsername THEN <<"Username must be at least 2 characters">>
    ELSE IF Len(v.s) > MaxUsername THEN <<"Username must not exceed 50 characters">>
    ELSE <<>>

\* The schema below with its pattern unanchored.
userIdSchemaUnanchored(params) ==
    IF ContainsDigits(params.id) THEN <<>> ELSE <<"ID must be a positive number">>

userIdSchema(params) ==
    IF MatchesDigits(params.id) THEN <<>> ELSE <<"ID must be a positive number">>

requiredUserDataSchema(body) ==
    (IF ~IsStr(body.username) THEN <<"Username must be a string">>
     ELSE UsernameLengthIssues(body.username))
    \o
    (IF IsStr(body.email) /\ IsEmail(body.email.s) THEN <<>>
     ELSE <<"Email must be a valid email">>)

partialUserDataSchema(body) ==
    (IF body.username = Undef THEN <<>>
     ELSE IF ~IsStr(body.username)
          THEN <<"Invalid input: expected string, received number">>
     ELSE UsernameLengthIssues(body.username))
    \o
    (IF body.email = Undef THEN <<>>
     ELSE IF IsStr(body.email) /\ IsEmail(body.email.s) THEN <<>>
     ELSE <<"Email must be a valid email">>)

\* The shared shape of the three validators: respond and return on
\* failure, call next() otherwise.
ValidatorOutcome(issues, status) ==
    IF issues # <<>>
    THEN Rejecting(Response(status, "Validation failed", issues, NoData))
    ELSE Passing

\* The same validator with the `return` forgotten: it responds and then
\* still calls next().
ValidatorOutcomeFallThrough(issues, status) ==
    IF issues # <<>>
    THEN RespondedAndNext(Response(status, "Validation failed", issues, NoData))
    ELSE Passing

\* validateUserId with the `return` forgotten.
validateUserIdFallThrough(req) == ValidatorOutcomeFallThrough(userIdSchema(req), 404)

validateUserId(req) == ValidatorOutcome(userIdSchema(req), 404)

\* validateRequiredUserData also looking the username up in the store.
validateRequiredUserDataTaken(req) ==
    ValidatorOutcome(requiredUserDataSchema(req.body)
                     \o (IF \E u \in users : Str(u.username) = req.body.username
                         THEN <<"Username is already taken">> ELSE <<>>), 400)

validateRequiredUserData(req) == ValidatorOutcome(requiredUserDataSchema(req.body), 400)
validatePartialUserData(req) == ValidatorOutcome(partialUserDataSchema(req.body), 400)

\* The earlier validateUserId with a test that also refuses 0.
validateUserIdPositive(req) ==
    IF JsNumber(req.id).nan \/ JsNumber(req.id).n <= 0
    THEN Rejecting(ErrorRes(400, "Invalid user ID"))
    ELSE Passing

\* The earlier validateUserId of the same file: Number() and isNaN().
validateUserIdIsNaN(req) ==
    IF JsNumber(req.id).nan
    THEN Rejecting(ErrorRes(400, "Invalid user ID"))
    ELSE Passing

----------------------------------------------------------------------------
(* Token service and auth middleware (utils/jwt.js and                     *)
(* middleware/auth-validation.js).                                         *)

Secret == "JWT_SECRET"
TokenTtl == 1

NoHeader == [kind |-> "none"]
Garbage == [kind |-> "garbage"]
Jwt(sub, iat, sig) == [kind |-> "jwt", sub |-> sub, iat |-> iat, exp |-> iat + TokenTtl, sig |-> sig]

generateToken(id, time) == Jwt(id, time, Secret)

AuthOk(id) == [ok |-> TRUE, sub |-> id, err |-> ""]
AuthErr(e) == [ok |-> FALSE, sub |-> 0, err |-> e]

verifyToken(token, time) ==
    CASE token.kind # "jwt" -> AuthErr("Malformed")
      [] token.kind = "jwt" /\ token.sig # Secret -> AuthErr("BadSignature")
      [] token.kind = "jwt" /\ token.sig = Secret /\ time > token.exp -> AuthErr("Expired")
      [] OTHER -> AuthOk(token.sub)

authenticateToken(req, time) ==
    IF req.auth = NoHeader THEN Rejecting(ErrorRes(401, "Unauthorized"))
    ELSE LET v == verifyToken(req.auth, time)
         IN  IF v.ok THEN PassingAs(v.sub)
             ELSE Rejecting(ErrorRes(401, "Unauthorized"))

----------------------------------------------------------------------------
(* Express runs the middlewares of a route in declared order; each either  *)
(* ends the request or calls next().                                       *)

\* middleware/auth-validation.js: the shapes of the registration and the
\* login body.
MinPassword == 6

registrationShape(body) ==
    (IF IsStr(body.username) /\ UsernameLengthIssues(body.username) = <<>> THEN <<>>
     ELSE <<"Username must be between 2 and 50 characters">>)
    \o
    (IF IsStr(body.email) /\ IsEmail(body.email.s) THEN <<>>
     ELSE <<"Email must be a valid email">>)
    \o
    (IF IsStr(body.password) /\ Len(body.password.s) >= MinPassword THEN <<>>
     ELSE <<"Password must be at least 6 characters">>)

loginShape(body) ==
    (IF Truthy(body.email) THEN <<>> ELSE <<"Email is required">>)
    \o
    (IF Truthy(body.password) THEN <<>> ELSE <<"Password is required">>)

validateRegistration(req) == ValidatorOutcome(registrationShape(req.body), 400)
validateLogin(req) == ValidatorOutcome(loginShape(req.body), 400)

Middleware(name, req, time) ==
    CASE name = "authenticateToken" -> authenticateToken(req, time)
      [] name = "validateRegistration" -> validateRegistration(req)
      [] name = "validateLogin" -> validateLogin(req)
      [] name = "validateUserId" -> validateUserId(req)
      [] name = "validateRequiredUserData" -> validateRequiredUserData(req)
      [] name = "validatePartialUserData" -> validatePartialUserData(req)

\* State of a request while its chain runs.
StartRun == [steps |-> <<>>, res |-> NoRes, user |-> 0, next |-> TRUE]

RECURSIVE RunFrom(_, _, _, _, _)
RunFrom(chain, i, req, time, run) ==
    IF i > Len(chain) \/ ~run.next THEN run
    ELSE LET out == Middleware(chain[i], req, time)
         IN  RunFrom(chain, i + 1, req, time,
                     [steps |-> Append(run.steps, chain[i]),
                      res |-> IF run.res = NoRes THEN out.res ELSE run.res,
                      user |-> IF out.user # 0 THEN out.user ELSE run.user,
                      next |-> out.next])

RunChain(chain, req, time) == RunFrom(chain, 1, req, time, StartRun)

----------------------------------------------------------------------------
(* The store: pool.execute on the tables users and articles.  A statement  *)
(* either rejects (connection or server failure, or an undefined bind      *)
(* parameter, which the driver refuses) or takes effect atomically.        *)

\* WHERE id = ? with a bound JavaScript number: NaN matches no row.
IdIs(row, num) == ~num.nan /\ row.id = num.n

\* bcrypt.hash / bcrypt.compare.
Hash(password) == [alg |-> "bcrypt", of |-> password]
Compare(password, digest) == digest.alg = "bcrypt" /\ digest.of = password

\* "Bind parameters must not contain undefined".
BindRejects(params) == \E i \in 1..Len(params) : params[i] = Undef

\* What a handler did: its response, the statements it issued, whether one
\* of them rejected, whether that rejection left the handler uncaught, and
\* the store and the tokens after it.
Effect(res, stmts, failed, us, as, nu, na, tk) ==
    [res |-> res, stmts |-> stmts, failed |-> failed, escaped |-> FALSE, users |-> us,
     articles |-> as, nextUserId |-> nu, nextArticleId |-> na, issued |-> tk]

\* A handler that answers without changing the store.
Answer(res, stmts, failed) ==
    Effect(res, stmts, failed, users, articles, nextUserId, nextArticleId, issued)

NotReached == Answer(NoRes, <<>>, FALSE)

\* An async handler without try/catch whose statement rejected: the
\* rejection leaves the handler.
Thrown(res, stmts) == [Answer(res, stmts, TRUE) EXCEPT !.escaped = TRUE]

----------------------------------------------------------------------------
(* routes/auth.ts                                                          *)

RegisterChain == <<"validateRegistration">>
LoginChain == <<"validateLogin">>

\* The lookup below by email alone.
ExistingUsersByEmail(email, username) ==
    {u \in users : u.email = email}

\* SELECT * FROM users WHERE email = ? OR username = ?
ExistingUsers(email, username) ==
    {u \in users : u.email = email \/ u.username = username}

\* fail: the index of the statement that rejects (0: none).
registerHandler(req, fail) ==
    LET username == req.body.username.s
        email == req.body.email.s
        password == req.body.password.s
        row == [id |-> nextUserId, username |-> username, email |-> email,
                password |-> Hash(password)]
    IN  IF fail = 1
        THEN Answer(ErrorRes(500, "Failed to register user"), <<"SELECT">>, TRUE)
        ELSE IF ExistingUsers(email, username) # {}
        THEN Answer(ErrorRes(400, "User with this email or username already exists"),
                    <<"SELECT">>, FALSE)
        ELSE IF fail = 2
        THEN Answer(ErrorRes(500, "Failed to register user"), <<"SELECT", "INSERT">>, TRUE)
        ELSE Effect(DataRes(201, [message |-> "User registered successfully",
                                  user |-> [id |-> row.id, username |-> username,
                                            email |-> email]]),
                    <<"SELECT", "INSERT">>, FALSE,
                    users \cup {row}, articles, nextUserId + 1, nextArticleId, issued)

\* The handler up to its first await: the existence SELECT and the early
\* return.  A response of NoRes means the handler goes on to the INSERT.
registerSelect(req, fail) ==
    LET username == req.body.username.s
        email == req.body.email.s
    IN  IF fail
        THEN Answer(ErrorRes(500, "Failed to register user"), <<"SELECT">>, TRUE)
        ELSE IF ExistingUsers(email, username) # {}
        THEN Answer(ErrorRes(400, "User with this email or username already exists"),
                    <<"SELECT">>, FALSE)
        ELSE Answer(NoRes, <<"SELECT">>, FALSE)

\* The handler after the SELECT found no row: bcrypt.hash, the INSERT and
\* the 201 response, run against the store as it is by then.
registerInsert(req, fail) ==
    LET username == req.body.username.s
        email == req.body.email.s
        password == req.body.password.s
        row == [id |-> nextUserId, username |-> username, email |-> email,
                password |-> Hash(password)]
    IN  IF fail
        THEN Answer(ErrorRes(500, "Failed to register user"), <<"INSERT">>, TRUE)
        ELSE Effect(DataRes(201, [message |-> "User registered successfully",
                                  user |-> [id |-> row.id, username |-> username,
                                            email |-> email]]),
                    <<"INSERT">>, FALSE,
                    users \cup {row}, articles, nextUserId + 1, nextArticleId, issued)

\* The lookup below without its WHERE clause.
UsersUnfiltered(email) == users

\* SELECT id, username, email, password FROM users WHERE email = ?
UsersByEmail(email) == {u \in users : u.email = email}

\* await bcrypt.compare(password, user.password) with no check of its result.
PasswordUnchecked(password, user) == TRUE

\* const validPassword = await bcrypt.compare(password, user.password)
ValidPassword(password, user) == Compare(password, user.password)

\* user: the row the driver returns first (the statement has no ORDER BY).
loginHandler(req, user, fail) ==
    LET password == req.body.password.s
        token == generateToken(user.id, now)
    IN  IF fail = 1
        THEN Answer(ErrorRes(500, "Failed to log in"), <<"SELECT">>, TRUE)
        ELSE IF UsersByEmail(req.body.email.s) = {}
        THEN Answer(ErrorRes(401, "Invalid email or password"), <<"SELECT">>, FALSE)
        ELSE IF ~ValidPassword(password, user)
        THEN Answer(ErrorRes(401, "Invalid email or password"), <<"SELECT">>, FALSE)
        ELSE Effect(DataRes(200, [message |-> "Login successful",
                                  user |-> [id |-> user.id, username |-> user.username,
                                            email |-> user.email],
                                  token |-> token]),
                    <<"SELECT">>, FALSE,
                    users, articles, nextUserId, nextArticleId, issued \cup {token})

----------------------------------------------------------------------------
(* routes/users.ts                                                         *)

\* The users router as it was before authentication was added to it.
PutUserChainOpen == <<"validateUserId", "validateRequiredUserData">>

\* The same chain with its two validators in the other order.
PutUserChainBodyFirst == <<"authenticateToken", "validateRequiredUserData", "validateUserId">>

\* PATCH /:id with its validators declared before authenticateToken.
PatchUserChainValidatorsFirst ==
    <<"validateUserId", "validatePartialUserData", "authenticateToken">>

\* DELETE /:id as it was before authentication was added to it.
DeleteUserChainOpen == <<"validateUserId">>

PutUserChain == <<"authenticateToken", "validateUserId", "validateRequiredUserData">>
PatchUserChain == <<"authenticateToken", "validateUserId", "validatePartialUserData">>
DeleteUserChain == <<"authenticateToken", "validateUserId">>

GetUsersChain == <<>>
GetUserChain == <<"validateUserId">>
GetUserArticlesChain == <<"validateUserId">>

\* SELECT * FROM users, as the router first had it.
AllUserColumns(u) == u

\* SELECT id, username, email FROM users
UserColumns(u) == [id |-> u.id, username |-> u.username, email |-> u.email]

getUsersHandler(req, fail) ==
    IF fail = 1
    THEN Answer(ErrorRes(500, "Failed to retrieve users"), <<"SELECT">>, TRUE)
    ELSE Answer(DataRes(200, ArrayOf({UserColumns(u) : u \in users})), <<"SELECT">>, FALSE)

\* SELECT id, username, email FROM users WHERE id = ?
getUserHandler(req, fail) ==
    LET userId == JsNumber(req.id)
        rows == {UserColumns(u) : u \in {v \in users : IdIs(v, userId)}}
    IN  IF fail = 1
        THEN Answer(ErrorRes(500, "Failed to update user"), <<"SELECT">>, TRUE)
        ELSE IF rows = {}
        THEN Answer(ErrorRes(404, "User not found"), <<"SELECT">>, FALSE)
        ELSE Answer(DataRes(200, ArrayOf(rows)), <<"SELECT">>, FALSE)

\* The error-handling middleware of index.ts.
InternalServerError == ErrorRes(500, "Internal Server Error")

\* SELECT articles.*, users.username, users.email FROM articles
\* INNER JOIN users ON articles.submitted_by = users.id
ArticleWithUser(a, u) ==
    [id |-> a.id, title |-> a.title, body |-> a.body, submitted_by |-> a.submitted_by,
     created_at |-> a.created_at, category |-> a.category,
     username |-> u.username, email |-> u.email]

Joined(as) ==
    {ArticleWithUser(a, u) : <<a, u>> \in {p \in as \X users : p[1].submitted_by = p[2].id}}

\* ... WHERE users.id = ?  The handler has no try/catch: when the statement
\* rejects, the router either hands the rejection to the error-handling
\* middleware (forwarded) or never learns of it, and nothing is sent.
getUserArticlesHandler(req, fail, forwarded) ==
    LET userId == JsNumber(req.id)
        rows == Joined({a \in articles : IdIs([id |-> a.submitted_by], userId)})
    IN  IF fail = 1
        THEN Thrown(IF forwarded THEN InternalServerError ELSE NoRes, <<"SELECT">>)
        ELSE Answer(DataRes(200, ArrayOf(rows)), <<"SELECT">>, FALSE)

\* UPDATE users SET username = ?, email = ? WHERE id = ?
putUserHandler(req, user, fail) ==
    LET userId == JsNumber(req.id)
        username == req.body.username
        email == req.body.email
        hit == {u \in users : IdIs(u, userId)}
        set(u) == [u EXCEPT !.username = username.s, !.email = email.s]
    IN  IF fail = 1 \/ BindRejects(<<username, email>>)
        THEN Answer(ErrorRes(500, "Failed to update user"), <<"UPDATE">>, TRUE)
        ELSE IF hit = {}
        THEN Answer(ErrorRes(404, "User not found"), <<"UPDATE">>, FALSE)
        ELSE Effect(DataRes(200, [id |-> userId.n, username |-> username, email |-> email]),
                    <<"UPDATE">>, FALSE,
                    (users \ hit) \cup {set(u) : u \in hit},
                    articles, nextUserId, nextArticleId, issued)

\* if (req.user!.id !== userId)
PatchForbidden(user, userId) == userId.nan \/ user # userId.n

\* UPDATE users SET <the fields given> WHERE id = ?
patchUserHandler(req, user, fail) ==
    LET userId == JsNumber(req.id)
        username == req.body.username
        email == req.body.email
        hit == {u \in users : IdIs(u, userId)}
        set(u) == [u EXCEPT
                     !.username = IF Truthy(username) THEN username.s ELSE @,
                     !.email = IF Truthy(email) THEN email.s ELSE @]
    IN  IF PatchForbidden(user, userId)
        THEN Answer(ErrorRes(403, "Forbidden: You can only update your own profile"),
                    <<>>, FALSE)
        ELSE IF ~Truthy(username) /\ ~Truthy(email)
        THEN Answer(ErrorRes(400, "No valid fields to update"), <<>>, FALSE)
        ELSE IF fail = 1
        THEN Answer(ErrorRes(500, "Failed to update user"), <<"UPDATE">>, TRUE)
        ELSE IF hit = {}
        THEN Answer(ErrorRes(404, "User not found"), <<"UPDATE">>, FALSE)
        ELSE Effect(DataRes(200, [id |-> userId.n, username |-> username, email |-> email]),
                    <<"UPDATE">>, FALSE,
                    (users \ hit) \cup {set(u) : u \in hit},
                    articles, nextUserId, nextArticleId, issued)

\* The handler below with `affectedRows >= 0` as its first test.
deleteUserHandlerAnyRows(req, user, fail) ==
    LET userId == JsNumber(req.id)
        hit == {u \in users : IdIs(u, userId)}
    IN  IF fail = 1
        THEN Answer(ErrorRes(500, "Failed to delete user"), <<"DELETE">>, TRUE)
        ELSE IF Cardinality(hit) >= 0
        THEN Effect(DataRes(200, [message |-> "User deleted successfully"]),
                    <<"DELETE">>, FALSE,
                    users \ hit, articles, nextUserId, nextArticleId, issued)
        ELSE IF Cardinality(hit) = 0
        THEN Answer(ErrorRes(404, "User not found"), <<"DELETE">>, FALSE)
        ELSE Answer(DataRes(204, NoData), <<"DELETE">>, FALSE)

\* DELETE FROM users WHERE id = ?
deleteUserHandler(req, user, fail) ==
    LET userId == JsNumber(req.id)
        hit == {u \in users : IdIs(u, userId)}
    IN  IF fail = 1
        THEN Answer(ErrorRes(500, "Failed to delete user"), <<"DELETE">>, TRUE)
        ELSE IF Cardinality(hit) > 0
        THEN Effect(DataRes(200, [message |-> "User deleted successfully"]),
                    <<"DELETE">>, FALSE,
                    users \ hit, articles, nextUserId, nextArticleId, issued)
        ELSE IF Cardinality(hit) = 0
        THEN Answer(ErrorRes(404, "User not found"), <<"DELETE">>, FALSE)
        ELSE Answer(DataRes(204, NoData), <<"DELETE">>, FALSE)

----------------------------------------------------------------------------
(* routes/articles.ts                                                      *)

CreateArticleChain == <<"authenticateToken">>
PutArticleChain == <<"authenticateToken">>
DeleteArticleChain == <<"authenticateToken">>

GetArticlesChain == <<>>
GetArticleChain == <<>>

getArticlesHandler(req, fail) ==
    IF fail = 1
    THEN Answer(ErrorRes(500, "Failed to fetch articles"), <<"SELECT">>, TRUE)
    ELSE Answer(DataRes(200, ArrayOf(Joined(articles))), <<"SELECT">>, FALSE)

\* ... WHERE articles.id = ?  `article`: the first row returned.
getArticleHandler(req, fail) ==
    LET articleId == JsNumber(req.id)
        rows == Joined({a \in articles : IdIs(a, articleId)})
    IN  IF fail = 1
        THEN Answer(ErrorRes(500, "Failed to fetch article"), <<"SELECT">>, TRUE)
        ELSE IF rows = {}
        THEN Answer(ErrorRes(404, "article not found"), <<"SELECT">>, FALSE)
        ELSE Answer(DataRes(200, CHOOSE r \in rows : TRUE), <<"SELECT">>, FALSE)

\* The clause below without the owner.
AnyArticle(a, articleId, userId) == IdIs(a, articleId)

\* WHERE id = ? AND submitted_by = ?
OwnedArticle(a, articleId, userId) == IdIs(a, articleId) /\ a.submitted_by = userId

\* The handler below binding the owner the body names, when it names one.
createArticleHandlerOwnerFromBody(req, user, fail) ==
    LET title == req.body.title
        body == req.body.body
        category == req.body.category
        owner == IF req.body.submitted_by.t = "number" THEN req.body.submitted_by.n ELSE user
        row == [id |-> nextArticleId, title |-> title.s, body |-> body.s,
                submitted_by |-> owner, category |-> category, created_at |-> now]
    IN  IF user = 0
        THEN Answer(ErrorRes(401, "Unauthorized"), <<>>, FALSE)
        ELSE IF ~Truthy(title) \/ ~Truthy(body)
        THEN Answer(ErrorRes(400, "Title and body are required"), <<>>, FALSE)
        ELSE IF fail = 1 \/ BindRejects(<<title, body, Num(user), category>>)
        THEN Answer(ErrorRes(500, "Failed to create article"), <<"INSERT">>, TRUE)
        ELSE Effect(DataRes(201, [id |-> row.id, title |-> title, body |-> body,
                                  submitted_by |-> user, category |-> category]),
                    <<"INSERT">>, FALSE,
                    users, articles \cup {row}, nextUserId, nextArticleId + 1, issued)

\* INSERT INTO articles (title, body, submitted_by, category) VALUES (?, ?, ?, ?)
\* The column created_at is filled by the store with the time of the INSERT.
createArticleHandler(req, user, fail) ==
    LET title == req.body.title
        body == req.body.body
        category == req.body.category
        row == [id |-> nextArticleId, title |-> title.s, body |-> body.s,
                submitted_by |-> user, category |-> category, created_at |-> now]
    IN  IF user = 0
        THEN Answer(ErrorRes(401, "Unauthorized"), <<>>, FALSE)
        ELSE IF ~Truthy(title) \/ ~Truthy(body)
        THEN Answer(ErrorRes(400, "Title and body are required"), <<>>, FALSE)
        ELSE IF fail = 1 \/ BindRejects(<<title, body, Num(user), category>>)
        THEN Answer(ErrorRes(500, "Failed to create article"), <<"INSERT">>, TRUE)
        ELSE Effect(DataRes(201, [id |-> row.id, title |-> title, body |-> body,
                                  submitted_by |-> user, category |-> category]),
                    <<"INSERT">>, FALSE,
                    users, articles \cup {row}, nextUserId, nextArticleId + 1, issued)

\* The handler below with the category of the body in its UPDATE.
putArticleHandlerWithCategory(req, user, fail) ==
    LET articleId == JsNumber(req.id)
        title == req.body.title
        body == req.body.body
        hit == {a \in articles : OwnedArticle(a, articleId, user)}
        set(a) == [a EXCEPT !.title = title.s, !.body = body.s, !.category = req.body.category]
    IN  IF user = 0
        THEN Answer(ErrorRes(401, "Unauthorized"), <<>>, FALSE)
        ELSE IF ~Truthy(title) \/ ~Truthy(body)
        THEN Answer(ErrorRes(400, "Title and body are required"), <<>>, FALSE)
        ELSE IF fail = 1
        THEN Answer(ErrorRes(500, "Failed to update article"), <<"UPDATE">>, TRUE)
        ELSE IF Cardinality(hit) = 0
        THEN Answer(ErrorRes(404, "Article not found or unauthorized"), <<"UPDATE">>, FALSE)
        ELSE Effect(DataRes(200, [id |-> req.id, title |-> title, body |-> body,
                                  submitted_by |-> user]),
                    <<"UPDATE">>, FALSE,
                    users, (articles \ hit) \cup {set(a) : a \in hit},
                    nextUserId, nextArticleId, issued)

\* UPDATE articles SET title = ?, body = ? WHERE id = ? AND submitted_by = ?
putArticleHandler(req, user, fail) ==
    LET articleId == JsNumber(req.id)
        title == req.body.title
        body == req.body.body
        hit == {a \in articles : OwnedArticle(a, articleId, user)}
        set(a) == [a EXCEPT !.title = title.s, !.body = body.s]
    IN  IF user = 0
        THEN Answer(ErrorRes(401, "Unauthorized"), <<>>, FALSE)
        ELSE IF ~Truthy(title) \/ ~Truthy(body)
        THEN Answer(ErrorRes(400, "Title and body are required"), <<>>, FALSE)
        ELSE IF fail = 1
        THEN Answer(ErrorRes(500, "Failed to update article"), <<"UPDATE">>, TRUE)
        ELSE IF Cardinality(hit) = 0
        THEN Answer(ErrorRes(404, "Article not found or unauthorized"), <<"UPDATE">>, FALSE)
        ELSE Effect(DataRes(200, [id |-> req.id, title |-> title, body |-> body,
                                  submitted_by |-> user]),
                    <<"UPDATE">>, FALSE,
                    users, (articles \ hit) \cup {set(a) : a \in hit},
                    nextUserId, nextArticleId, issued)

\* DELETE FROM articles WHERE id = ? AND submitted_by = ?
deleteArticleHandler(req, user, fail) ==
    LET articleId == JsNumber(req.id)
        hit == {a \in articles : OwnedArticle(a, articleId, user)}
    IN  IF user = 0
        THEN Answer(ErrorRes(401, "Unauthorized"), <<>>, FALSE)
        ELSE IF fail = 1
        THEN Answer(ErrorRes(500, "Failed to delete article"), <<"DELETE">>, TRUE)
        ELSE IF Cardinality(hit) = 0
        THEN Answer(ErrorRes(404, "Article not found or unauthorized"), <<"DELETE">>, FALSE)
        ELSE Effect(DataRes(204, NoData), <<"DELETE">>, FALSE,
                    users, articles \ hit, nextUserId, nextArticleId, issued)

----------------------------------------------------------------------------
(* The requests clients send.                                              *)

EmailA == <<"a", "@", "b", ".", "i", "o">>
EmailB == <<"b", "@", "b", ".", "i", "o">>
EmailNoTld == <<"a", "@", "b">>

Numeral(n) == <<CHOOSE c \in Digits : DigitVal(c) = n>>

UserBody(username, email) == [username |-> username, email |-> email]
RegisterBody(username, email, password) ==
    [username |-> username, email |-> email, password |-> password]
LoginBody(email, password) == [email |-> email, password |-> password]
\* A body that also names an owner; a field a body lacks reads as undefined.
ArticleBodyAs(title, body, category, owner) ==
    [title |-> title, body |-> body, category |-> category, submitted_by |-> owner]
ArticleBody(title, body, category) == ArticleBodyAs(title, body, category, Undef)

\* A client presents no header, garbage, a token signed with another key,
\* or a token it was issued.
AuthHeaders == {NoHeader, Garbage, Jwt(1, 0, "forged")} \cup issued

IdParams == {Numeral(i) : i \in 1..MaxUsers} \cup {<<"a">>}
ArticleIdParams == {Numeral(i) : i \in 1..MaxArticles}

RegisterRequests ==
    [auth : {NoHeader}, id : {<<>>},
     body : {RegisterBody(Str("al"), Str(EmailA), Str("secret1")),
             RegisterBody(Str("bo"), Str(EmailB), Str("secret2")),
             RegisterBody(Str("x"), Str(EmailNoTld), Str("secret1")),
             RegisterBody(Str("al"), Str(EmailA), Str("123"))}]

LoginRequests ==
    [auth : {NoHeader}, id : {<<>>},
     body : {LoginBody(Str(EmailA), Str("secret1")),
             LoginBody(Str(EmailA), Str("secret2")),
             LoginBody(Str(EmailB), Str("secret2")),
             LoginBody(Str(EmailB), Str("secret1")),
             LoginBody(Undef, Undef)}]

UserRequests ==
    [auth : AuthHeaders, id : IdParams,
     body : {UserBody(Str("bo"), Str(EmailB)),
             UserBody(Str("x"), Str(EmailNoTld)),
             UserBody(Str("bo"), Undef),
             UserBody(Undef, Undef)}]

DeleteUserRequests == [auth : AuthHeaders, id : IdParams, body : {Undef}]

CreateArticleRequests ==
    [auth : AuthHeaders, id : {<<>>},
     body : {ArticleBody(Str("T1"), Str("B1"), Str("news")),
             ArticleBodyAs(Str("T1"), Str("B1"), Str("news"), Num(2)),
             ArticleBody(Str("T1"), Str("B1"), Undef),
             ArticleBody(Undef, Str("B1"), Str("news"))}]

PutArticleRequestsAmong(n) ==
    [auth : AuthHeaders, id : {Numeral(i) : i \in 1..n},
     body : {ArticleBody(Str("T1"), Str("B1"), Str("sport")),
             ArticleBodyAs(Str("T2"), Str("B2"), Str("sport"), Num(2)),
             ArticleBody(Str("T2"), Undef, Undef)}]

PutArticleRequests == PutArticleRequestsAmong(MaxArticles)

DeleteArticleRequests == [auth : AuthHeaders, id : ArticleIdParams, body : {Undef}]

\* The GET routes read neither the Authorization header nor a body.
ListRequests == [auth : {NoHeader}, id : {<<>>}, body : {Undef}]
GetUserRequests == [auth : {NoHeader}, id : IdParams, body : {Undef}]
GetArticleRequests == [auth : {NoHeader}, id : ArticleIdParams, body : {Undef}]

----------------------------------------------------------------------------
(* The state machine: one action per route.  A request is taken up when    *)
(* the previous exchange is over (Finish), except that a client may log in *)
(* directly after registering.                                             *)

NoExchange ==
    [route |-> "none", req |-> [auth |-> NoHeader, id |-> <<>>, body |-> Undef],
     res |-> NoRes]

\* `after` is the exchange this request directly followed, if any.
NoRequest ==
    [route |-> "none", req |-> NoExchange.req, steps |-> <<>>, stmts |-> <<>>,
     res |-> NoRes, user |-> 0, failed |-> FALSE, escaped |-> FALSE,
     after |-> NoExchange]

NoMemo == [route |-> "none"]

\* The clients that may have a registration in flight at the same time.
Clients == 1..MaxClients

Idle == [pc |-> "idle", req |-> NoExchange.req, res |-> NoRes]

Init ==
    /\ users = {}
    /\ articles = {}
    /\ nextUserId = 1
    /\ nextArticleId = 1
    /\ issued = {}
    /\ now = 0
    /\ last = NoRequest
    /\ memo = NoMemo
    /\ pending = [c \in Clients |-> Idle]

\* The chain ran (`run`); the handler, if reached, did `out`.  The store
\* holds at most n articles.
CommitAmong(n, route, req, run, out) ==
    /\ out.nextUserId <= MaxUsers + 1
    /\ out.nextArticleId <= n + 1
    /\ Cardinality(out.issued) <= MaxTokens
    /\ users' = out.users
    /\ articles' = out.articles
    /\ nextUserId' = out.nextUserId
    /\ nextArticleId' = out.nextArticleId
    /\ issued' = out.issued
    /\ now' = now
    /\ memo' = memo
    /\ pending' = pending
    /\ last' = [route |-> route, req |-> req,
                steps |-> IF run.next THEN Append(run.steps, "handler") ELSE run.steps,
                stmts |-> out.stmts,
                res |-> IF run.res # NoRes THEN run.res ELSE out.res,
                user |-> run.user,
                failed |-> out.failed,
                escaped |-> out.escaped,
                after |-> [route |-> last.route, req |-> last.req, res |-> last.res]]

Commit(route, req, run, out) == CommitAmong(MaxArticles, route, req, run, out)

Register ==
    \E req \in RegisterRequests, fail \in 0..2 :
        LET run == RunChain(RegisterChain, req, now)
        IN  Commit("POST /auth/register", req, run,
                   IF run.next THEN registerHandler(req, fail) ELSE NotReached)

Login ==
    \E req \in LoginRequests, fail \in 0..1 :
        LET run == RunChain(LoginChain, req, now)
            rows == IF run.next THEN UsersByEmail(req.body.email.s) ELSE {}
        IN  \E user \in IF rows = {} THEN {NoRequest} ELSE rows :
                Commit("POST /auth/login", req, run,
                       IF run.next THEN loginHandler(req, user, fail) ELSE NotReached)

PutUser ==
    \E req \in UserRequests, fail \in 0..1 :
        LET run == RunChain(PutUserChain, req, now)
        IN  Commit("PUT /users/:id", req, run,
                   IF run.next THEN putUserHandler(req, run.user, fail) ELSE NotReached)

PatchUser ==
    \E req \in UserRequests, fail \in 0..1 :
        LET run == RunChain(PatchUserChain, req, now)
        IN  Commit("PATCH /users/:id", req, run,
                   IF run.next THEN patchUserHandler(req, run.user, fail) ELSE NotReached)

DeleteUser ==
    \E req \in DeleteUserRequests, fail \in 0..1 :
        LET run == RunChain(DeleteUserChain, req, now)
        IN  Commit("DELETE /users/:id", req, run,
                   IF run.next THEN deleteUserHandler(req, run.user, fail) ELSE NotReached)

CreateArticleAmong(n) ==
    \E req \in CreateArticleRequests, fail \in 0..1 :
        LET run == RunChain(CreateArticleChain, req, now)
        IN  CommitAmong(n, "POST /articles", req, run,
                        IF run.next THEN createArticleHandler(req, run.user, fail)
                        ELSE NotReached)

CreateArticle == CreateArticleAmong(MaxArticles)

PutArticleAmong(n) ==
    \E req \in PutArticleRequestsAmong(n), fail \in 0..1 :
        LET run == RunChain(PutArticleChain, req, now)
        IN  CommitAmong(n, "PUT /articles/:id", req, run,
                        IF run.next THEN putArticleHandler(req, run.user, fail)
                        ELSE NotReached)

PutArticle == PutArticleAmong(MaxArticles)

DeleteArticle ==
    \E req \in DeleteArticleRequests, fail \in 0..1 :
        LET run == RunChain(DeleteArticleChain, req, now)
        IN  Commit("DELETE /articles/:id", req, run,
                   IF run.next THEN deleteArticleHandler(req, run.user, fail) ELSE NotReached)

GetUsers ==
    \E req \in ListRequests, fail \in 0..1 :
        LET run == RunChain(GetUsersChain, req, now)
        IN  Commit("GET /users", req, run, getUsersHandler(req, fail))

GetUser ==
    \E req \in GetUserRequests, fail \in 0..1 :
        LET run == RunChain(GetUserChain, req, now)
        IN  Commit("GET /users/:id", req, run,
                   IF run.next THEN getUserHandler(req, fail) ELSE NotReached)

GetUserArticles ==
    \E req \in GetUserRequests, fail \in 0..1, forwarded \in BOOLEAN :
        LET run == RunChain(GetUserArticlesChain, req, now)
        IN  Commit("GET /users/:id/articles", req, run,
                   IF run.next THEN getUserArticlesHandler(req, fail, forwarded)
                   ELSE NotReached)

GetArticles ==
    \E req \in ListRequests, fail \in 0..1 :
        LET run == RunChain(GetArticlesChain, req, now)
        IN  Commit("GET /articles", req, run, getArticlesHandler(req, fail))

GetArticle ==
    \E req \in GetArticleRequests, fail \in 0..1 :
        LET run == RunChain(GetArticleChain, req, now)
        IN  Commit("GET /articles/:id", req, run, getArticleHandler(req, fail))

\* The exchange is over: the request and its response are dropped.
Finish ==
    /\ last # NoRequest
    /\ last' = NoRequest
    /\ UNCHANGED <<users, articles, nextUserId, nextArticleId, issued, now, memo, pending>>

Ready == last = NoRequest
JustRegistered == last.route = "POST /auth/register" /\ last.res.status = 201

Next ==
    \/ Ready /\ Register
    \/ Ready /\ Login
    \/ Ready /\ PutUser
    \/ Ready /\ PatchUser
    \/ Ready /\ DeleteUser
    \/ Ready /\ CreateArticle
    \/ Ready /\ PutArticle
    \/ Ready /\ DeleteArticle
    \/ Ready /\ GetUsers
    \/ Ready /\ GetUser
    \/ Ready /\ GetUserArticles
    \/ Ready /\ GetArticles
    \/ Ready /\ GetArticle
    \/ JustRegistered /\ Login
    \/ Finish

Spec == Init /\ [][Next]_vars

----------------------------------------------------------------------------
(* The users and auth routes with a client that keeps one request a        *)
(* validator of the users router rejected and sends it again later, other  *)
(* requests being handled in between.                                      *)

BodyValidators == {"validateRequiredUserData", "validatePartialUserData"}

Remember ==
    /\ memo = NoMemo
    /\ last.steps # <<>>
    /\ last.steps[Len(last.steps)] \in BodyValidators \cup {"validateUserId"}
    /\ memo' = [route |-> last.route, by |-> last.steps[Len(last.steps)],
                req |-> last.req, res |-> last.res]
    /\ UNCHANGED <<users, articles, nextUserId, nextArticleId, issued, now, last, pending>>

ReplayNext ==
    \/ Ready /\ Register
    \/ Ready /\ Login
    \/ Ready /\ PutUser
    \/ Ready /\ PatchUser
    \/ Ready /\ DeleteUser
    \/ Remember
    \/ Finish

ReplaySpec == Init /\ [][ReplayNext]_vars

----------------------------------------------------------------------------
(* The auth routes and a protected route under a clock that advances       *)
(* between requests.                                                       *)

Tick ==
    /\ now < MaxTime
    /\ now' = now + 1
    /\ UNCHANGED <<users, articles, nextUserId, nextArticleId, issued, last, memo, pending>>

ClockNext ==
    \/ Ready /\ Register
    \/ Ready /\ Login
    \/ Ready /\ DeleteUser
    \/ Ready /\ Tick
    \/ Finish

ClockSpec == Init /\ [][ClockNext]_vars

----------------------------------------------------------------------------
(* The articles router with its users, over a store that holds one more    *)
(* article than above, while time passes.  Clients log in directly after   *)
(* registering.                                                            *)

MoreArticles == MaxArticles + 1

ArticleNext ==
    \/ Ready /\ Register
    \/ JustRegistered /\ Login
    \/ Ready /\ CreateArticleAmong(MoreArticles)
    \/ Ready /\ PutArticleAmong(MoreArticles)
    \/ Ready /\ Tick
    \/ Finish

ArticleSpec == Init /\ [][ArticleNext]_vars

----------------------------------------------------------------------------
(* Registrations handled concurrently.  The handler awaits the store       *)
(* twice, so the event loop may run any step of another request between    *)
(* the existence SELECT of a request and its INSERT.  Each statement takes *)
(* effect atomically in the store.                                         *)

RaceRequests ==
    [auth : {NoHeader}, id : {<<>>},
     body : {RegisterBody(Str("al"), Str(EmailA), Str("secret1")),
             RegisterBody(Str("al"), Str(EmailB), Str("secret2")),
             RegisterBody(Str("bo"), Str(EmailB), Str("secret2")),
             RegisterBody(Str("x"), Str(EmailNoTld), Str("secret1"))}]

\* The request arrives and validateRegistration runs.
RegisterArrives(c) ==
    /\ pending[c].pc = "idle"
    /\ \E req \in RaceRequests :
          LET run == RunChain(RegisterChain, req, now)
          IN  pending' = [pending EXCEPT ![c] =
                  [pc |-> IF run.next THEN "select" ELSE "done",
                   req |-> req, res |-> run.res]]
    /\ UNCHANGED <<users, articles, nextUserId, nextArticleId, issued, now, last, memo>>

\* The store runs the existence SELECT of the request.
RegisterSelects(c) ==
    /\ pending[c].pc = "select"
    /\ \E fail \in BOOLEAN :
          LET out == registerSelect(pending[c].req, fail)
          IN  pending' = [pending EXCEPT ![c] =
                  [pc |-> IF out.res = NoRes THEN "insert" ELSE "done",
                   req |-> pending[c].req, res |-> out.res]]
    /\ UNCHANGED <<users, articles, nextUserId, nextArticleId, issued, now, last, memo>>

\* The store runs the INSERT of the request, which is then answered.
RegisterInserts(c) ==
    /\ pending[c].pc = "insert"
    /\ \E fail \in BOOLEAN :
          LET out == registerInsert(pending[c].req, fail)
          IN  /\ out.nextUserId <= MaxClients + 1
              /\ users' = out.users
              /\ nextUserId' = out.nextUserId
              /\ pending' = [pending EXCEPT ![c] =
                      [pc |-> "done", req |-> pending[c].req, res |-> out.res]]
    /\ UNCHANGED <<articles, nextArticleId, issued, now, last, memo>>

RaceNext ==
    \/ \E c \in Clients : RegisterArrives(c)
    \/ \E c \in Clients : RegisterSelects(c)
    \/ \E c \in Clients : RegisterInserts(c)

RaceSpec == Init /\ [][RaceNext]_vars

----------------------------------------------------------------------------
(* The validators on their own: each is applied to one input and what it   *)
(* did is recorded.  Path parameters are written over a small alphabet,    *)
(* usernames are given by their length.                                    *)

MaxIdLen == 3
IdAlphabet == {"0", "1", "2", "a", "-"}
ProbeIds == UNION {[1..n -> IdAlphabet] : n \in 1..MaxIdLen}

NameOfLength(n) == Str([i \in 1..n |-> "a"])
ProbeUsernames ==
    {NameOfLength(n) : n \in {0, 1, 2, 3, 49, 50, 51, 52}} \cup {Num(7), Undef}
ProbeEmails ==
    {Str(EmailA), Str(EmailB), Str(EmailNoTld), Str(<<"a", "@", "b", ".", "i">>),
     Str(<<".", "a", "@", "b", ".", "i", "o">>), Str(<<"a", "b">>), Str(<<>>),
     Num(7), Undef}
ProbeBodies == [username : ProbeUsernames, email : ProbeEmails]

ProbeRequest(id, body) == [auth |-> NoHeader, id |-> id, body |-> body]

\* `was`: what the earlier implementation of the same validator did.
CheckUserId ==
    /\ \E id \in ProbeIds :
          LET req == ProbeRequest(id, Undef)
          IN  last' = [route |-> "validateUserId", req |-> req,
                       out |-> validateUserId(req), was |-> validateUserIdIsNaN(req)]
    /\ UNCHANGED <<users, articles, nextUserId, nextArticleId, issued, now, memo, pending>>

CheckRequiredUserData ==
    /\ \E body \in ProbeBodies :
          LET req == ProbeRequest(<<"1">>, body)
          IN  last' = [route |-> "validateRequiredUserData", req |-> req,
                       out |-> validateRequiredUserData(req)]
    /\ UNCHANGED <<users, articles, nextUserId, nextArticleId, issued, now, memo, pending>>

CheckPartialUserData ==
    /\ \E body \in ProbeBodies :
          LET req == ProbeRequest(<<"1">>, body)
          IN  last' = [route |-> "validatePartialUserData", req |-> req,
                       out |-> validatePartialUserData(req)]
    /\ UNCHANGED <<users, articles, nextUserId, nextArticleId, issued, now, memo, pending>>

ValidatorNext ==
    \/ CheckUserId
    \/ CheckRequiredUserData
    \/ CheckPartialUserData

ValidatorSpec == Init /\ [][ValidatorNext]_vars

----------------------------------------------------------------------------
(* Properties.                                                             *)

ProtectedRoutes ==
    {"POST /articles", "PUT /articles/:id", "DELETE /articles/:id",
     "PUT /users/:id", "PATCH /users/:id", "DELETE /users/:id"}
UserWriteRoutes == {"PUT /users/:id", "PATCH /users/:id", "DELETE /users/:id"}
ArticleWriteRoutes == {"PUT /articles/:id", "DELETE /articles/:id"}

Ran(l, step) == \E i \in 1..Len(l.steps) : l.steps[i] = step
TokenVerifies(l) == verifyToken(l.req.auth, now).ok

\* The article a request on /articles/:id names, if it is stored.
Target(l, rows) == {a \in rows : IdIs(a, JsNumber(l.req.id))}

\* C1: on every protected route a request without an Authorization header,
\* or with a token that does not verify, is answered 401, and neither the
\* handler nor any store statement runs for it.
C1_UnverifiedIsRejected ==
    (last.route \in ProtectedRoutes /\ ~TokenVerifies(last))
        => /\ last.res.status = 401
           /\ ~Ran(last, "handler")
           /\ last.stmts = <<>>

\* A garbage token on PUT /users/:id with an id and a body the validators
\* accept: only the missing identity stops the update.
C1_Witness ==
    /\ last.route = "PUT /users/:id"
    /\ last.req.auth = Garbage
    /\ userIdSchema(last.req) = <<>>
    /\ requiredUserDataSchema(last.req.body) = <<>>
    /\ users # {}
    /\ last.res.status = 401

\* C2 as stated: a PUT or DELETE on an article by an authenticated identity
\* that is not its owner is answered 404 and leaves the article as it was
\* (requests whose store statement rejected set aside).
C2_NonOwnerGets404 ==
    [][\A a \in articles :
          (/\ last'.route \in ArticleWriteRoutes
           /\ last'.user # 0
           /\ ~last'.failed
           /\ a \in Target(last', articles)
           /\ a.submitted_by # last'.user)
              => (last'.res.status = 404 /\ a \in articles')]_vars

\* C2 amended: such a request never changes the article; it is answered
\* 400 when it is a PUT without a title or a body, 500 when the store
\* statement rejects, and 404 otherwise.
C2_NonOwnerLeavesArticle ==
    [][\A a \in articles :
          (/\ last'.route \in ArticleWriteRoutes
           /\ last'.user # 0
           /\ a \in Target(last', articles)
           /\ a.submitted_by # last'.user)
              => /\ a \in articles'
                 /\ articles' = articles
                 /\ last'.res.status =
                        IF /\ last'.route = "PUT /articles/:id"
                           /\ (~Truthy(last'.req.body.title) \/ ~Truthy(last'.req.body.body))
                        THEN 400
                        ELSE IF last'.failed THEN 500 ELSE 404]_vars

\* A PUT with a new title and body on another identity's article, refused.
C2_Witness ==
    /\ last.route = "PUT /articles/:id"
    /\ last.user # 0
    /\ last.res.status = 404
    /\ \E a \in Target(last, articles) :
          /\ a.submitted_by # last.user
          /\ a.title # last.req.body.title.s

\* C3: a user record is changed or removed through PUT, PATCH or DELETE
\* /users/:id only by a request whose authenticated identity is :id.
C3_OnlySelfChangesUser ==
    [][(last'.route \in UserWriteRoutes /\ users' # users)
          => (last'.user # 0 /\ JsNumber(last'.req.id) = [nan |-> FALSE, n |-> last'.user])]_vars

\* The resource a request names exists and belongs to another identity.
NotOwned(l) ==
    \/ /\ l.route \in UserWriteRoutes
       /\ \E u \in users : IdIs(u, JsNumber(l.req.id)) /\ u.id # l.user
    \/ /\ l.route \in ArticleWriteRoutes
       /\ \E a \in Target(l, articles) : a.submitted_by # l.user

\* C4: an update or delete that the handler refuses because the resource
\* belongs to another identity is answered 404, never 403.
C4_NotOwnedIs404 ==
    (/\ last.user # 0
     /\ Ran(last, "handler")
     /\ NotOwned(last)
     /\ last.res.status \in {403, 404})
        => last.res.status = 404

\* C5: no two stored users share an email, and no two share a username.
C5_UniqueIdentities ==
    \A u, v \in users :
        u # v => (u.email # v.email /\ u.username # v.username)

DuplicateMessage == "User with this email or username already exists"

\* C6: a registration with a valid payload whose email or username is
\* already stored inserts and changes nothing, and is answered 400 with
\* the duplicate message (unless its lookup itself rejected).
C6_DuplicateRegistrationRefused ==
    [][(/\ last'.route = "POST /auth/register"
        /\ registrationShape(last'.req.body) = <<>>
        /\ \E u \in users : \/ u.email = last'.req.body.email.s
                            \/ u.username = last'.req.body.username.s)
          => /\ users' = users
             /\ nextUserId' = nextUserId
             /\ last'.stmts = <<"SELECT">>
             /\ ~last'.failed => last'.res = ErrorRes(400, DuplicateMessage)]_vars

\* A registration refused for its username alone: the email is new.
C6_Witness ==
    /\ last.route = "POST /auth/register"
    /\ last.res = ErrorRes(400, DuplicateMessage)
    /\ \E u \in users : u.username = last.req.body.username.s
    /\ \A u \in users : u.email # last.req.body.email.s

\* The stored users whose email and password are the ones a login gives.
Holders(body) ==
    {u \in users : /\ IsStr(body.email) /\ IsStr(body.password)
                   /\ u.email = body.email.s
                   /\ u.password = Hash(body.password.s)}

\* C7: a login is answered 200 with a token only for the email and the
\* password of a stored user, the token naming that user; a login whose
\* email is unknown or whose password verifies against no record of that
\* email is answered 401 "Invalid email or password" without a token.
C7_LoginNeedsCredentials ==
    last.route = "POST /auth/login"
        => /\ last.res.status = 200
                => \E u \in Holders(last.req.body) :
                      /\ last.res.data.token = generateToken(u.id, now)
                      /\ last.res.data.user.id = u.id
           /\ (Ran(last, "handler") /\ ~last.failed /\ Holders(last.req.body) = {})
                => last.res = ErrorRes(401, "Invalid email or password")

\* A login with the email of a stored user and another password.
C7_Witness ==
    /\ last.route = "POST /auth/login"
    /\ last.res = ErrorRes(401, "Invalid email or password")
    /\ \E u \in users : u.email = last.req.body.email.s

\* C8: a login that directly follows a successful registration and gives
\* its email and password is answered with a token that verifies to the id
\* the registration returned.
C8_RegisterThenLogin ==
    (/\ last.route = "POST /auth/login"
     /\ last.after.route = "POST /auth/register"
     /\ last.after.res.status = 201
     /\ last.req.body.email = last.after.req.body.email
     /\ last.req.body.password = last.after.req.body.password
     /\ ~last.failed)
        => /\ last.res.status = 200
           /\ verifyToken(last.res.data.token, now) = AuthOk(last.after.res.data.user.id)

\* Such a login after the registration of the second user.
C8_Witness ==
    /\ last.route = "POST /auth/login"
    /\ last.after.route = "POST /auth/register"
    /\ last.after.res.status = 201
    /\ last.req.body.email = last.after.req.body.email
    /\ last.req.body.password = last.after.req.body.password
    /\ last.res.status = 200
    /\ last.res.data.user.id = 2

Validators == {"validateUserId", "validateRequiredUserData", "validatePartialUserData"}

\* The issues a validator's schema reports for a request.
IssuesOf(step, req) ==
    CASE step = "validateUserId" -> userIdSchema(req)
      [] step = "validateRequiredUserData" -> requiredUserDataSchema(req.body)
      [] step = "validatePartialUserData" -> partialUserDataSchema(req.body)

\* C9: when a validator rejects a request it is the last step that runs:
\* no later middleware, no handler and no store statement, and the
\* response is the validator's.
C9_RejectionEndsRequest ==
    \A i \in 1..Len(last.steps) :
        (last.steps[i] \in Validators /\ IssuesOf(last.steps[i], last.req) # <<>>)
            => /\ i = Len(last.steps)
               /\ last.stmts = <<>>
               /\ last.res.error = "Validation failed"
               /\ last.res.details = IssuesOf(last.steps[i], last.req)

\* A PUT for a stored user whose id passes validateUserId and whose body
\* validateRequiredUserData rejects.
C9_Witness ==
    /\ last.route = "PUT /users/:id"
    /\ last.steps = <<"authenticateToken", "validateUserId", "validateRequiredUserData">>
    /\ last.res.status = 400
    /\ \E u \in users : IdIs(u, JsNumber(last.req.id))

\* C10: an authenticated request to PUT or PATCH /users/:id that fails both
\* validateUserId and the body validator gets validateUserId's response,
\* 404 with the id message alone.
C10_FirstFailureAnswers ==
    (/\ last.route \in {"PUT /users/:id", "PATCH /users/:id"}
     /\ TokenVerifies(last)
     /\ userIdSchema(last.req) # <<>>
     /\ IssuesOf(IF last.route = "PUT /users/:id" THEN "validateRequiredUserData"
                 ELSE "validatePartialUserData", last.req) # <<>>)
        => /\ last.res.status = 404
           /\ last.res.details = <<"ID must be a positive number">>

\* A PUT with a valid token, a non-numeric id and a body with two bad fields.
C10_Witness ==
    /\ last.route = "PUT /users/:id"
    /\ TokenVerifies(last)
    /\ userIdSchema(last.req) # <<>>
    /\ Len(requiredUserDataSchema(last.req.body)) = 2
    /\ last.res.status = 404

\* C11: a PATCH /users/:id whose body sets neither username nor email is
\* rejected by validatePartialUserData itself, with 400, and no store
\* statement runs for it.
C11_NoFieldsFailsInValidator ==
    (/\ last.route = "PATCH /users/:id"
     /\ Ran(last, "validatePartialUserData")
     /\ last.req.body.username = Undef
     /\ last.req.body.email = Undef)
        => /\ last.steps[Len(last.steps)] = "validatePartialUserData"
           /\ last.res.status = 400
           /\ last.stmts = <<>>

DecimalDigits == {"0", "1", "2", "3", "4", "5", "6", "7", "8", "9"}
IsDecimal(id) == Len(id) > 0 /\ \A i \in 1..Len(id) : id[i] \in DecimalDigits

UsernameMessages ==
    {"Username must be a string", "Username must be at least 2 characters",
     "Username must not exceed 50 characters"}

\* C13: validateRequiredUserData calls next() exactly when username is a
\* string of 2 to 50 characters and email is a valid address; otherwise it
\* answers 400 with one message for each of the two fields that is wrong,
\* the username's first.
C13_RequiredBodyBounds ==
    last.route = "validateRequiredUserData"
        => LET u == last.req.body.username
               e == last.req.body.email
               uOk == u.t = "string" /\ Len(u.s) >= 2 /\ Len(u.s) <= 50
               eOk == e.t = "string" /\ IsEmail(e.s)
               d == last.out.res.details
           IN  IF uOk /\ eOk
               THEN last.out.next /\ last.out.res = NoRes
               ELSE /\ ~last.out.next
                    /\ last.out.res.status = 400
                    /\ Len(d) = (IF uOk THEN 0 ELSE 1) + (IF eOk THEN 0 ELSE 1)
                    /\ ~uOk => d[1] \in UsernameMessages
                    /\ ~eOk => d[Len(d)] = "Email must be a valid email"

\* A username of 51 characters with a valid email: one message.
C13_Witness ==
    /\ last.route = "validateRequiredUserData"
    /\ last.req.body.username = NameOfLength(51)
    /\ last.req.body.email = Str(EmailA)
    /\ last.out.res.status = 400
    /\ last.out.res.details = <<"Username must not exceed 50 characters">>

\* A username of 50 characters with a valid email passes.
C13_WitnessAccepted ==
    /\ last.route = "validateRequiredUserData"
    /\ last.req.body.username = NameOfLength(50)
    /\ last.out.next

\* The JSON objects of a response body: the body itself or the elements of
\* the array it is, and the `user` member of a register or login body.
BodyObjects(res) ==
    IF res = NoRes THEN {}
    ELSE IF "t" \in DOMAIN res.data
         THEN (IF res.data.t = "array" THEN res.data.items ELSE {})
    ELSE {res.data} \cup (IF "user" \in DOMAIN res.data THEN {res.data.user} ELSE {})

\* C14: no response body of any route carries the stored password digest
\* of a user.
C14_NoDigestInResponses ==
    \A o \in BodyObjects(last.res) :
        "password" \in DOMAIN o => \A u \in users : o.password # u.password

\* GET /users answered with the records of two registered users.
C14_Witness ==
    /\ last.route = "GET /users"
    /\ last.res.status = 200
    /\ Cardinality(last.res.data.items) = 2
    /\ \A u \in users : u.password = Hash("secret1") \/ u.password = Hash("secret2")

\* C15: on every route a request whose store statement rejects is answered
\* 500 by the handler itself: the rejection does not leave the handler and
\* the request is not left without a response.
C15_StoreFailureIs500 ==
    last.failed => (last.res.status = 500 /\ ~last.escaped)

Range(seq) == {seq[i] : i \in 1..Len(seq)}

\* C16: when a validator runs again on the path parameter and body of a
\* request it rejected before, whatever was handled in between, it rejects
\* again with the same status and the same set of messages.
C16_ValidationRepeats ==
    (/\ memo # NoMemo
     /\ last.route = memo.route
     /\ last.req.id = memo.req.id
     /\ last.req.body = memo.req.body
     /\ Ran(last, memo.by))
        => /\ last.steps[Len(last.steps)] = memo.by
           /\ last.res.status = memo.res.status
           /\ Range(last.res.details) = Range(memo.res.details)

\* A PUT body without an email rejected when no user had its username, and
\* again after a user with that username was registered.
C16_Witness ==
    /\ memo # NoMemo
    /\ memo.by = "validateRequiredUserData"
    /\ last.route = memo.route
    /\ last.req.id = memo.req.id
    /\ last.req.body = memo.req.body
    /\ last.req.body.username = Str("bo")
    /\ last.res = memo.res
    /\ \E u \in users : u.username = "bo"
    /\ memo.req.auth # last.req.auth

C17_WitnessExpired ==
    /\ last.route = "DELETE /users/:id"
    /\ last.req.auth \in issued
    /\ now = last.req.auth.iat + TokenTtl + 1
    /\ last.res.status = 401

\* What the validators a users route declares find wrong with a request.
ShapeIssues(l) ==
    userIdSchema(l.req)
    \o (IF l.route = "PUT /users/:id" THEN requiredUserDataSchema(l.req.body)
        ELSE IF l.route = "PATCH /users/:id" THEN partialUserDataSchema(l.req.body)
        ELSE <<>>)

\* C18 as stated: on PUT, PATCH and DELETE /users/:id a request that has an
\* invalid id or body and no valid token is answered by the validation
\* failure (400 or 404), not by 401.
C18_ValidationBeforeAuth ==
    (/\ last.route \in UserWriteRoutes
     /\ ~TokenVerifies(last)
     /\ ShapeIssues(last) # <<>>)
        => last.res.status \in {400, 404}

\* C18 amended: on these routes authenticateToken runs first.  A request
\* without a valid token is answered 401 "Unauthorized" whatever its id
\* and body, and no validator runs; the validation failure is the answer
\* only to a request whose token verifies.
C18_AuthBeforeValidation ==
    (last.route \in UserWriteRoutes /\ ShapeIssues(last) # <<>>)
        => IF TokenVerifies(last)
           THEN /\ last.res.status \in {400, 404}
                /\ last.res.error = "Validation failed"
                /\ last.steps[1] = "authenticateToken"
           ELSE /\ last.res = ErrorRes(401, "Unauthorized")
                /\ last.steps = <<"authenticateToken">>

\* A PATCH with a non-numeric id and a body the validator rejects, bearing
\* a token signed with another key.
C18_Witness ==
    /\ last.route = "PATCH /users/:id"
    /\ last.req.auth = Jwt(1, 0, "forged")
    /\ userIdSchema(last.req) # <<>>
    /\ partialUserDataSchema(last.req.body) # <<>>
    /\ last.res.status = 401

\* C19 as stated: the schema-based validateUserId and the Number/isNaN one
\* reject the same id parameters.
C19_SameDecision ==
    last.route = "validateUserId" => (last.out.next <=> last.was.next)

\* C19 amended: every id the Number/isNaN validateUserId rejects (with 400)
\* the schema-based one rejects too (with 404), and both accept every
\* string of decimal digits; the converse does not hold.
C19_IsNaNRejectsLess ==
    last.route = "validateUserId"
        => /\ ~last.was.next => (~last.out.next /\ last.was.res.status = 400)
           /\ ~last.out.next => last.out.res.status = 404
           /\ IsDecimal(last.req.id) => (last.out.next /\ last.was.next)

\* "-1": a number for the earlier validator, refused by the schema.
C19_Witness ==
    /\ last.route = "validateUserId"
    /\ last.req.id = <<"-", "1">>
    /\ last.was.next
    /\ last.out.res.status = 404

\* C20 as stated: no execution of the DELETE /users/:id handler takes the
\* zero-rows branch, which answers 404 "User not found".
C20_ZeroRowsUnreachable ==
    last.route = "DELETE /users/:id" => last.res # ErrorRes(404, "User not found")

\* C20 amended: the handler answers 200 when its DELETE removed the row of
\* :id and 404 "User not found" when it matched no row; it is the 204 after
\* the two tests that is never sent.
C20_ZeroRowsIs404 ==
    [][(/\ last'.route = "DELETE /users/:id"
        /\ Ran(last', "handler")
        /\ ~last'.failed)
          => LET hit == {u \in users : IdIs(u, JsNumber(last'.req.id))}
             IN  /\ users' = users \ hit
                 /\ last'.res.status = IF hit = {} THEN 404 ELSE 200
                 /\ hit = {} => last'.res = ErrorRes(404, "User not found")]_vars

\* DELETE for an id no stored user has, while another user is stored.
C20_Witness ==
    /\ last.route = "DELETE /users/:id"
    /\ last.res = ErrorRes(404, "User not found")
    /\ last.stmts = <<"DELETE">>
    /\ users # {}

\* C21: after a PUT or PATCH /users/:id answered 200, the id, username and
\* email of the response body are those of the stored record of that user.
C21_ResponseMirrorsRecord ==
    (last.route \in {"PUT /users/:id", "PATCH /users/:id"} /\ last.res.status = 200)
        => \E u \in users :
              /\ last.res.data.id = u.id
              /\ last.res.data.username = Str(u.username)
              /\ last.res.data.email = Str(u.email)

\* C22: of the registrations handled concurrently, no two that carry the same
\* email or the same username are both answered 201, and no two stored user
\* records share an email or a username.
C22_OneRegistrationWins ==
    /\ \A c, d \in Clients :
          (/\ c # d
           /\ pending[c].pc = "done" /\ pending[c].res.status = 201
           /\ pending[d].pc = "done" /\ pending[d].res.status = 201)
              => /\ pending[c].req.body.email # pending[d].req.body.email
                 /\ pending[c].req.body.username # pending[d].req.body.username
    /\ \A u, v \in users :
          u.id # v.id => (u.email # v.email /\ u.username # v.username)

\* C23: an article enters the store only through a POST /articles answered
\* 201, with the identity its token verifies to as owner, whatever owner the
\* body names; and no step changes the owner of a stored article.
C23_OwnerIsCreator ==
    [][\A a \in articles' :
          IF \E b \in articles : b.id = a.id
          THEN \A b \in articles : b.id = a.id => a.submitted_by = b.submitted_by
          ELSE /\ last'.route = "POST /articles"
               /\ last'.res.status = 201
               /\ last'.res.data.id = a.id
               /\ verifyToken(last'.req.auth, now') = AuthOk(a.submitted_by)]_vars

\* User 1 created an article with a body that names user 2 as its owner.
C23_Witness ==
    /\ last.route = "POST /articles"
    /\ last.res.status = 201
    /\ last.req.body.submitted_by = Num(2)
    /\ last.req.auth.sub = 1
    /\ \E a \in articles : a.id = last.res.data.id /\ a.submitted_by = 1

\* The owner updated the article with a body that names another owner.
C23_WitnessPut ==
    /\ last.route = "PUT /articles/:id"
    /\ last.res.status = 200
    /\ last.req.body.submitted_by = Num(2)
    /\ \E a \in Target(last, articles) : a.submitted_by = 1 /\ a.title = "T2"

\* User 2 tried to update an article of user 1 and it kept its owner.
C23_WitnessOther ==
    /\ last.route = "PUT /articles/:id"
    /\ last.user = 2
    /\ last.res.status = 404
    /\ \E a \in Target(last, articles) : a.submitted_by = 1

\* C24: a PUT /articles/:id answered 200 was sent by the owner of the
\* article; it leaves the article with the title and body of the request
\* and with the id, owner, creation time and category it had, and leaves
\* every other article and every user record as it was.
C24_PutArticleFrame ==
    [][(last'.route = "PUT /articles/:id" /\ last'.res.status = 200)
          => /\ users' = users
             /\ \E a \in articles, b \in articles' :
                   /\ IdIs(a, JsNumber(last'.req.id))
                   /\ a.submitted_by = last'.user
                   /\ b.id = a.id
                   /\ b.title = last'.req.body.title.s
                   /\ b.body = last'.req.body.body.s
                   /\ b.submitted_by = a.submitted_by
                   /\ b.created_at = a.created_at
                   /\ b.category = a.category
                   /\ articles' \ {b} = articles \ {a}]_vars

\* An article created earlier was updated by its owner with a body that
\* names another category, while another article and a second user are stored.
C24_Witness ==
    /\ last.route = "PUT /articles/:id"
    /\ last.res.status = 200
    /\ Cardinality(users) = 2
    /\ \E a \in Target(last, articles) :
          /\ a.title = "T2"
          /\ a.category = Str("news")
          /\ last.req.body.category = Str("sport")
          /\ a.created_at < now
          /\ \E b \in articles : b.id # a.id

====
